---- MODULE Spec2Model ----
(***************************************************************************)
(* Model of the event-delivery core of the booking system: the Kafka       *)
(* Producer (internal/common/kafka, Produce / writeWithRetry), the Kafka   *)
(* Consumer (Start / processMessage / processWithRetry), the booking       *)
(* repository (Create / Update / Delete) and the booking domain            *)
(* predicates (IsOverlapping, IsActive).                                   *)
(***************************************************************************)
EXTENDS Integers, Sequences, FiniteSets, TLC

VARIABLES
    \* ---- Producer (one Produce call at a time) ----
    ppc,          \* position of the Produce call: "idle", "write", "backoff", "returned"
    pI,           \* loop variable i of writeWithRetry
    pErr,         \* the OUTER variable err of writeWithRetry (var err error)
    pErrInner,    \* the loop-scoped err := WriteMessages(...) that shadows it
    pCancelled,   \* ctx.Done() of the caller's context is closed
    pResult,      \* what Produce returned: [err, cause]
    pMsg,         \* the kafka.Message built by Produce: [headers]
    pAttempts,    \* history: WriteMessages calls made by this Produce call
    pAcks,        \* history: acknowledged writes of this Produce call
    pLastWriteErr,\* history: error of the last failed WriteMessages call
    pWaited,      \* history: seconds of backoff completed in this Produce call
    pCalls,       \* history: number of Produce calls made so far
    pProduced,    \* metrics.MessagesProduced{topic}
    pErrors,      \* metrics.MessageErrors{topic, kind}
    pValueOk,     \* history: the value of this Produce call can be serialized
    \* ---- Consumer (one Consumer instance, one goroutine running Start) ----
    spc,          \* position of Start: "new", "select", "call", "terminated"
    cpc,          \* position of processMessage: "idle", "read", "dispatch", "backoff"
    handlers,     \* c.handlers: message type -> behaviour of the registered handler
    cCancelled,   \* ctx.Done() of the context given to Start is closed
    cOffset,      \* number of messages ReadMessage has returned so far
    cMsg,         \* the message returned by the last ReadMessage
    cI,           \* loop variable i of processWithRetry
    cErr,         \* variable err of processWithRetry
    cOutcome,     \* what the last processMessage returned: [kind, cause]
    cStartResult, \* what Start returned
    cConsumed,    \* metrics.MessagesConsumed{topic}
    cErrors,      \* metrics.MessageErrors{topic, kind}
    cCalls,       \* history: handler invocations for the message in cMsg
    cIters,       \* history: loop iterations of processWithRetry for cMsg
    cWaited,      \* history: seconds of backoff completed for cMsg
    cLastHErr,    \* history: error returned by the last failed handler invocation
    cType,        \* history: messageType of the last loop iteration for cMsg
    cDecoded,     \* history: json.Unmarshal was called on the payload of cMsg
    cInFlight,    \* history: offsets read whose processMessage has not returned
    cReadErrs,    \* history: ReadMessage errors not caused by cancellation
    cStaged,      \* offset the reader holds for its next periodic commit, -1: none
    cCommitted,   \* offset committed to the broker for the group, -1: none
    cLogEnd,      \* offset after the last message of the partition read so far
    cCrashes,     \* history: crashes of the consumer process
    cCrashMsg,    \* history: offset of the message that was handled but not
                  \* committed at the last crash, -1: none
    \* ---- Booking repository ----
    bookings,     \* the rows of table bookings: [id, resource, start, end, status]
    bNextId,      \* the ids uuid.New() has handed out
    bResult,      \* what the last repository call returned
    bLast,        \* history: the last repository call and its arguments
    \* user service (internal/user/service) and repository
    users,        \* rows of the users table
    uNextId,      \* ids given out by uuid.New() in Create so far
    uc,           \* per caller: the UserService call it is in
    uEvents,      \* events the broker acknowledged, per type and user id
    uCalls,       \* history: UserService calls begun
    \* the handler registries of Consumer instances (Consumer.handlers)
    reg,          \* per instance: the map c.handlers
    rStarted,     \* per instance: Start has begun
    rWriting,     \* per instance: the RegisterHandler call inside its map write
    rReading,     \* per instance: the type a dispatch is looking up
    rFound,       \* per instance: what the last lookup returned
    rRace,        \* history: a map write and a map read of the instance overlapped
    rLate,        \* history: a RegisterHandler had not completed when Start began
    \* Timeout middleware (internal/common/middleware)
    tMain,        \* where the middleware function is for the current request
    tGo,          \* where the goroutine running c.Next() is
    tCtx,         \* the context of line 15: "live", "deadline" or "canceled"
    tWrites,      \* responses written for the current request
    tReqs,        \* history: requests begun
    tLeaked,      \* history: goroutines of earlier requests left blocked at the send
    \* ---- A call of Booking.IsOverlapping ----
    oa,           \* the receiver b
    ob,           \* the argument other
    oRes,         \* the value returned
    oDone,        \* the call has returned
    \* ---- A call of the status predicates of a Booking ----
    sUpd,         \* the value CanBeUpdated returned
    sCan,         \* the value CanBeCancelled returned
    sAct,         \* the value IsActive returned
    sDone         \* the three calls have returned

pvars == <<ppc, pI, pErr, pErrInner, pCancelled, pResult, pMsg, pAttempts,
           pAcks, pLastWriteErr, pWaited, pCalls, pProduced, pErrors,
           pValueOk>>

ccvars == <<cStaged, cCommitted, cLogEnd, cCrashes, cCrashMsg>>

cvars == <<ccvars, spc, cpc, handlers, cCancelled, cOffset, cMsg, cI, cErr, cOutcome,
           cStartResult, cConsumed, cErrors, cCalls, cIters, cWaited,
           cLastHErr, cType, cDecoded, cInFlight, cReadErrs>>

bvars == <<bookings, bNextId, bResult, bLast>>

ovars == <<oa, ob, oRes, oDone, sUpd, sCan, sAct, sDone>>

uvars == <<users, uNextId, uc, uEvents, uCalls>>

rvars == <<reg, rStarted, rWriting, rReading, rFound, rRace, rLate>>

tvars == <<tMain, tGo, tCtx, tWrites, tReqs, tLeaked>>

vars == <<pvars, cvars, bvars, ovars, uvars, rvars, tvars>>

NotProducer == <<cvars, bvars, ovars, uvars, rvars, tvars>>

NotConsumer == <<pvars, bvars, ovars, uvars, rvars, tvars>>

NotBooking == <<pvars, cvars, ovars, uvars, rvars, tvars>>

NotOverlap == <<pvars, cvars, bvars, uvars, rvars, tvars>>

NotUser == <<pvars, cvars, bvars, ovars, rvars, tvars>>

NotRegistry == <<pvars, cvars, bvars, ovars, uvars, tvars>>

NotTimeout == <<pvars, cvars, bvars, ovars, uvars, rvars>>

----------------------------------------------------------------------------
(* Bounds of the model *)
MaxProduce == 2
MaxMsgs == 2
MaxReadErrs == 1
MaxCrashes == 1
MaxBookings == 2
MaxTime == 2
MaxUsers == 2
MaxUserCalls == 3
MaxRequests == 3

(* Program constants *)
\* maxRetries of NewProducer and of NewConsumer
ProducerMaxRetries == 3
ConsumerMaxRetries == 3

WriteErrs == {"w1", "w2"}
ProducerErrKinds == {"serialization", "produce"}
NoResult == [err |-> "none", cause |-> "none"]

----------------------------------------------------------------------------
(* Producer *)

\* select { case <-time.After(backoff): ; case <-ctx.Done(): return ctx.Err() }
\* A backoff of at least one second is never ready on entry, so a context
\* that is already done wins; otherwise the goroutine blocks and is woken by
\* whichever event comes first (the timer here, cancellation via PCancel).
SelectBackoffSleepOnly(cancelled) ==
    {"timer"}

SelectBackoff(cancelled) ==
    IF cancelled THEN {"ctxDone"} ELSE {"timer"}

\* backoff := time.Duration(i+1) * time.Second, in seconds
BackoffConstant(i) ==
    1

Backoff(i) ==
    i + 1

\* Headers put on the message by Produce
ProduceHeaders(traced) ==
    {"content-type"} \cup (IF traced THEN {"trace-id"} ELSE {})

\* The tail of Produce after writeWithRetry returned err (lines 77-86)
ProduceReturn(err) ==
    IF err # "nil"
    THEN /\ pErrors' = [pErrors EXCEPT !["produce"] = @ + 1]
         /\ pProduced' = pProduced
         /\ pResult' = [err |-> "produce", cause |-> err]
    ELSE /\ pProduced' = pProduced + 1
         /\ pErrors' = pErrors
         /\ pResult' = [err |-> "nil", cause |-> "nil"]

\* What writer.WriteMessages(ctx, msg) can return: nil once the broker has
\* acknowledged (RequiredAcks: RequireAll), a broker error, or the context's
\* error once the context is done.
WriteOutcomes(cancelled) ==
    {"nil"} \cup WriteErrs \cup (IF cancelled THEN {"canceled"} ELSE {})

\* Lines 92-98 of writeWithRetry: where one loop iteration goes, given what
\* WriteMessages returned and the loop variable
WriteResultNoReturn(outcome, i) ==
    IF outcome # "nil" /\ i < ProducerMaxRetries - 1 THEN "backoff" ELSE "next"

WriteResult(outcome, i) ==
    IF outcome = "nil" THEN "return"
    ELSE IF i < ProducerMaxRetries - 1 THEN "backoff"
    ELSE "next"

\* payload, err := json.Marshal(value); if err != nil (lines 52-53)
MarshalErrUnchecked(valueOk) ==
    FALSE

MarshalErr(valueOk) ==
    ~valueOk

PInit ==
    /\ ppc = "idle"
    /\ pI = 0
    /\ pErr = "nil"
    /\ pErrInner = "nil"
    /\ pCancelled = FALSE
    /\ pResult = NoResult
    /\ pMsg = [headers |-> {}]
    /\ pAttempts = 0
    /\ pAcks = 0
    /\ pLastWriteErr = "nil"
    /\ pWaited = 0
    /\ pCalls = 0
    /\ pProduced = 0
    /\ pErrors = [k \in ProducerErrKinds |-> 0]
    /\ pValueOk = TRUE

\* Produce up to the call of writeWithRetry (lines 48-75)
Produce(marshalOk, traced) ==
    /\ ppc \in {"idle", "returned"}
    /\ pCalls < MaxProduce
    /\ UNCHANGED NotProducer
    /\ pCalls' = pCalls + 1
    /\ pCancelled' = FALSE
    /\ pI' = 0
    /\ pErr' = "nil"
    /\ pErrInner' = "nil"
    /\ pAttempts' = 0
    /\ pAcks' = 0
    /\ pLastWriteErr' = "nil"
    /\ pWaited' = 0
    /\ pValueOk' = marshalOk
    /\ IF MarshalErr(marshalOk)
       THEN /\ pErrors' = [pErrors EXCEPT !["serialization"] = @ + 1]
            /\ pResult' = [err |-> "marshal", cause |-> "marshal"]
            /\ pMsg' = [headers |-> {}]
            /\ ppc' = "returned"
            /\ UNCHANGED pProduced
       ELSE /\ pMsg' = [headers |-> ProduceHeaders(traced)]
            /\ pResult' = NoResult
            /\ ppc' = "write"
            /\ UNCHANGED <<pProduced, pErrors>>

\* One iteration of the loop of writeWithRetry up to the select (lines 91-98),
\* and, when the function returns, the tail of Produce.
WriteAttempt(outcome) ==
    /\ ppc = "write"
    /\ pI < ProducerMaxRetries
    /\ outcome \in WriteOutcomes(pCancelled)
    /\ UNCHANGED NotProducer
    /\ pAttempts' = pAttempts + 1
    /\ pErrInner' = outcome
    /\ UNCHANGED <<pErr, pCancelled, pMsg, pWaited, pCalls, pValueOk>>
    /\ pAcks' = IF outcome = "nil" THEN pAcks + 1 ELSE pAcks
    /\ pLastWriteErr' = IF outcome = "nil" THEN pLastWriteErr ELSE outcome
    /\ LET res == WriteResult(outcome, pI)
       IN  CASE res = "return" ->
                  \* return nil
                  /\ ProduceReturn("nil")
                  /\ ppc' = "returned"
                  /\ UNCHANGED pI
             [] res = "backoff" ->
                  /\ ppc' = "backoff"
                  /\ UNCHANGED <<pI, pResult, pProduced, pErrors>>
             [] res = "next" ->
                  \* i++; when that ends the loop: return err, the outer
                  \* variable
                  /\ pI' = pI + 1
                  /\ IF pI + 1 < ProducerMaxRetries
                     THEN UNCHANGED <<ppc, pResult, pProduced, pErrors>>
                     ELSE /\ ProduceReturn(pErr)
                          /\ ppc' = "returned"

\* The select of writeWithRetry (lines 99-103)
PBackoff ==
    /\ ppc = "backoff"
    /\ \E branch \in SelectBackoff(pCancelled) :
         IF branch = "timer"
         THEN /\ pWaited' = pWaited + Backoff(pI)
              /\ pI' = pI + 1
              /\ ppc' = "write"
              /\ UNCHANGED <<pResult, pProduced, pErrors>>
         ELSE \* return ctx.Err()
              /\ ProduceReturn("canceled")
              /\ ppc' = "returned"
              /\ UNCHANGED <<pI, pWaited>>
    /\ UNCHANGED <<pErr, pErrInner, pCancelled, pMsg, pAttempts, pAcks,
                   pLastWriteErr, pCalls, pValueOk>>
    /\ UNCHANGED NotProducer

\* The caller cancels the context of the Produce call in progress
PCancel ==
    /\ ppc \in {"write", "backoff"}
    /\ ~pCancelled
    /\ pCancelled' = TRUE
    /\ UNCHANGED <<ppc, pI, pErr, pErrInner, pResult, pMsg, pAttempts, pAcks,
                   pLastWriteErr, pWaited, pCalls, pProduced, pErrors,
                   pValueOk>>
    /\ UNCHANGED NotProducer

PNext ==
    \/ \E marshalOk \in BOOLEAN, traced \in BOOLEAN : Produce(marshalOk, traced)
    \/ \E outcome \in {"nil", "canceled"} \cup WriteErrs : WriteAttempt(outcome)
    \/ PBackoff
    \/ PCancel

----------------------------------------------------------------------------
(* Consumer *)

\* Message types that handlers are registered for, and how a registered
\* handler behaves: "ok" always returns nil, "bad" fails on every invocation,
\* "flaky" may do either.
MsgTypes == {"A", "B"}
Behaviours == {"ok", "bad", "flaky"}
HandlerErrs == {"h1", "h2"}
ConsumerErrKinds == {"read", "process"}

\* The value of a message: whether it decodes as a JSON object, the string
\* in its top-level "type" field ("absent": no such field, or not a string),
\* whether it has the envelope's "id" and "data" fields, and whether it has a
\* field the envelope does not know
NoJson == [json |-> FALSE, type |-> "absent", id |-> FALSE, data |-> FALSE,
           extra |-> FALSE]
Envelope(t) == [json |-> TRUE, type |-> t, id |-> TRUE, data |-> TRUE,
                extra |-> FALSE]
Payloads ==
    {NoJson}
        \cup {Envelope(t) : t \in MsgTypes \cup {"absent"}}
        \cup {[Envelope("A") EXCEPT !.extra = TRUE],
              [Envelope("A") EXCEPT !.id = FALSE],
              [Envelope("A") EXCEPT !.data = FALSE]}

\* The message-type header of a message: missing, or present with a value
\* that can be empty
HeaderTypes == MsgTypes \cup {""}
Headers ==
    {[present |-> FALSE, value |-> ""]}
        \cup {[present |-> TRUE, value |-> v] : v \in HeaderTypes}

NoMsg == [offset |-> -1, hdr |-> [present |-> FALSE, value |-> ""],
          payload |-> NoJson]

\* headers["message-type"] (line 111) of the map built in lines 84-87: a
\* missing key reads as ""
HeaderLookup(m) ==
    IF m.hdr.present THEN m.hdr.value ELSE ""

\* if messageType == "" (line 112): the payload is decoded
DecodesPayload(m) ==
    HeaderLookup(m) = ""
NoOutcome == [kind |-> "none", cause |-> "none"]

\* Lines 111-119 of processWithRetry: the type the message is dispatched on
ResolveTypePayloadFirst(m) ==
    IF m.payload.json /\ m.payload.type # "absent"
    THEN m.payload.type
    ELSE HeaderLookup(m)

ResolveType(m) ==
    IF ~DecodesPayload(m)
    THEN HeaderLookup(m)
    ELSE IF m.payload.json /\ m.payload.type # "absent"
         THEN m.payload.type
         ELSE ""

\* What an invocation of a handler of behaviour b can return
HandlerOutcomes(b) ==
    CASE b = "ok" -> {"nil"}
      [] b = "bad" -> HandlerErrs
      [] b = "flaky" -> {"nil"} \cup HandlerErrs

\* Lines 121-132 of processWithRetry: where one loop iteration goes, given
\* whether a handler exists, what it returned, and the loop variable
AttemptResultRetryNotFound(exists, herr, i) ==
    IF exists /\ herr = "nil" THEN "success"
    ELSE IF i < ConsumerMaxRetries - 1 THEN "backoff"
    ELSE "next"

AttemptResult(exists, herr, i) ==
    IF exists
    THEN IF herr = "nil" THEN "success"
         ELSE IF i < ConsumerMaxRetries - 1 THEN "backoff"
         ELSE "next"
    ELSE "notfound"

\* The loop condition of processWithRetry: i < c.maxRetries
LoopContinuesInclusive(i) ==
    i <= ConsumerMaxRetries

LoopContinues(i) ==
    i < ConsumerMaxRetries

\* backoff := time.Duration(i+1) * time.Second (line 133), in seconds
CBackoffDurationConstant(i) ==
    1

CBackoffDuration(i) ==
    i + 1

\* The select of processWithRetry (lines 136-140); see SelectBackoff
CSelectBackoffSleepOnly(cancelled) ==
    {"timer"}

CSelectBackoff(cancelled) ==
    IF cancelled THEN {"ctxDone"} ELSE {"timer"}

\* The select of Start (lines 64-68): the default case runs only when
\* ctx.Done() is not ready
StartSelectNoCancelCheck(cancelled) ==
    "default"

StartSelectBranch(cancelled) ==
    IF cancelled THEN "ctxDone" ELSE "default"

\* Start calls processMessage synchronously: the loop is suspended in the
\* call until processMessage returns
StartSpawnsProcessMessage ==
    "select"

StartCallsProcessMessage ==
    "call"

\* Lines 69-72 of Start: an error of processMessage is logged, and the loop
\* goes on
StartOnReturnStopsOnError(kind) ==
    IF kind = "nil" THEN "select" ELSE "terminated"

StartOnReturn(kind) ==
    "select"

\* if err != nil (line 97): the error branch counts MessageErrors and
\* returns; otherwise MessagesConsumed is counted (line 103)
CountsAsConsumedAlways(kind) ==
    TRUE

CountsAsConsumed(kind) ==
    kind = "nil"

\* The read position after processMessage returned: lines 96-104 do not
\* touch the reader, whatever processWithRetry returned
PositionAfterReturnRewinds(kind, offset, msgOffset) ==
    IF kind = "exhausted" THEN msgOffset ELSE offset

PositionAfterReturn(kind, offset, msgOffset) ==
    offset

\* The return of processMessage after processWithRetry returned (lines 96-104)
ProcessReturn(kind, cause) ==
    /\ cOutcome' = [kind |-> kind, cause |-> cause]
    /\ IF CountsAsConsumed(kind)
       THEN /\ cConsumed' = cConsumed + 1
            /\ cErrors' = cErrors
       ELSE /\ cErrors' = [cErrors EXCEPT !["process"] = @ + 1]
            /\ cConsumed' = cConsumed
    /\ cInFlight' = cInFlight \ {cMsg.offset}
    /\ cOffset' = PositionAfterReturn(kind, cOffset, cMsg.offset)
    /\ cpc' = "idle"
    /\ spc' = StartOnReturn(kind)

\* ReadMessage of a reader that has a GroupID hands the offset after the
\* message to the reader's commit loop before it returns; with
\* CommitInterval > 0 (line 33) the loop sends it to the broker on its next
\* tick
StageAtRead(offset) ==
    offset + 1

\* Where a reader of the group starts: at the offset committed for the
\* group, or, when there is none, at StartOffset: kafka.LastOffset (line 34),
\* the end of the partition
StartPositionLatest(committed, logEnd) ==
    logEnd

StartPosition(committed, logEnd) ==
    IF committed = -1 THEN logEnd ELSE committed

CInit ==
    /\ spc = "new"
    /\ cpc = "idle"
    /\ handlers = [t \in {} |-> "ok"]
    /\ cCancelled = FALSE
    /\ cOffset = 0
    /\ cMsg = NoMsg
    /\ cI = 0
    /\ cErr = "nil"
    /\ cOutcome = NoOutcome
    /\ cStartResult = "none"
    /\ cConsumed = 0
    /\ cErrors = [k \in ConsumerErrKinds |-> 0]
    /\ cCalls = 0
    /\ cIters = 0
    /\ cWaited = 0
    /\ cLastHErr = "nil"
    /\ cType = ""
    /\ cDecoded = FALSE
    /\ cInFlight = {}
    /\ cReadErrs = 0
    /\ cStaged = -1
    /\ cCommitted = -1
    /\ cLogEnd = 0
    /\ cCrashes = 0
    /\ cCrashMsg = -1

\* c.handlers[messageType] = handler, at start-up
RegisterHandler(t, b) ==
    /\ spc = "new"
    /\ handlers' = [x \in DOMAIN handlers \cup {t} |->
                        IF x = t THEN b ELSE handlers[x]]
    /\ UNCHANGED <<spc, cpc, cCancelled, cOffset, cMsg, cI, cErr, cOutcome,
                   cStartResult, cConsumed, cErrors, cCalls, cIters, cWaited,
                   cLastHErr, cType, cDecoded, cInFlight, cReadErrs>>
    /\ UNCHANGED ccvars
    /\ UNCHANGED NotConsumer

\* Start is called (line 60-61)
Start ==
    /\ spc = "new"
    /\ spc' = "select"
    /\ UNCHANGED <<cpc, handlers, cCancelled, cOffset, cMsg, cI, cErr, cOutcome,
                   cStartResult, cConsumed, cErrors, cCalls, cIters, cWaited,
                   cLastHErr, cType, cDecoded, cInFlight, cReadErrs>>
    /\ UNCHANGED ccvars
    /\ UNCHANGED NotConsumer

\* One pass through the select of Start (lines 63-69)
StartSelect ==
    /\ spc = "select"
    /\ IF StartSelectBranch(cCancelled) = "ctxDone"
       THEN /\ spc' = "terminated"
            /\ cStartResult' = "canceled"
            /\ UNCHANGED cpc
       ELSE /\ spc' = StartCallsProcessMessage
            /\ cpc' = "read"
            /\ UNCHANGED cStartResult
    /\ UNCHANGED <<handlers, cCancelled, cOffset, cMsg, cI, cErr, cOutcome,
                   cConsumed, cErrors, cCalls, cIters, cWaited, cLastHErr, cType, cDecoded,
                   cInFlight, cReadErrs>>
    /\ UNCHANGED ccvars
    /\ UNCHANGED NotConsumer

\* ReadMessage returns the next message (lines 78, 84-92)
ReadMessage(hdr, payload) ==
    /\ cpc = "read"
    /\ cOffset < MaxMsgs
    /\ cMsg' = [offset |-> cOffset, hdr |-> hdr, payload |-> payload]
    /\ cOffset' = cOffset + 1
    /\ cInFlight' = cInFlight \cup {cOffset}
    /\ cI' = 0
    /\ cErr' = "nil"
    /\ cCalls' = 0
    /\ cIters' = 0
    /\ cWaited' = 0
    /\ cLastHErr' = "nil"
    /\ cType' = ""
    /\ cDecoded' = FALSE
    /\ cpc' = "dispatch"
    /\ cStaged' = StageAtRead(cOffset)
    /\ cLogEnd' = IF cOffset + 1 > cLogEnd THEN cOffset + 1 ELSE cLogEnd
    /\ UNCHANGED <<spc, handlers, cCancelled, cOutcome, cStartResult,
                   cConsumed, cErrors, cReadErrs>>
    /\ UNCHANGED <<cCommitted, cCrashes, cCrashMsg>>
    /\ UNCHANGED NotConsumer

\* ReadMessage returns an error (lines 78-82): the context's error once the
\* context is done, or an error of the broker connection.  The count of
\* errors is capped to keep the counters finite.
ReadError ==
    /\ cpc = "read"
    /\ cCancelled \/ cReadErrs < MaxReadErrs
    /\ cErrors["read"] <= MaxReadErrs
    /\ cReadErrs' = IF cCancelled THEN cReadErrs ELSE cReadErrs + 1
    /\ cErrors' = [cErrors EXCEPT !["read"] = @ + 1]
    /\ cOutcome' = [kind |-> "read",
                    cause |-> IF cCancelled THEN "canceled" ELSE "broker"]
    /\ cpc' = "idle"
    /\ spc' = StartOnReturn("read")
    /\ UNCHANGED <<handlers, cCancelled, cOffset, cMsg, cI, cErr, cStartResult,
                   cConsumed, cCalls, cIters, cWaited, cLastHErr, cType, cDecoded, cInFlight>>
    /\ UNCHANGED ccvars
    /\ UNCHANGED NotConsumer

\* One iteration of the loop of processWithRetry up to the select
\* (lines 110-134), with the return of processMessage when the loop ends
Dispatch(herr) ==
    /\ cpc = "dispatch"
    /\ LoopContinues(cI)
    /\ LET t == ResolveType(cMsg)
           exists == t \in DOMAIN handlers
           res == AttemptResult(exists, herr, cI)
       IN  /\ herr \in (IF exists THEN HandlerOutcomes(handlers[t]) ELSE {"none"})
           /\ cIters' = cIters + 1
           /\ cType' = t
           /\ cDecoded' = (cDecoded \/ DecodesPayload(cMsg))
           /\ cCalls' = IF exists THEN cCalls + 1 ELSE cCalls
           /\ cErr' = IF exists THEN herr ELSE cErr
           /\ cLastHErr' = IF exists /\ herr # "nil" THEN herr ELSE cLastHErr
           /\ CASE res = "success" ->
                     /\ ProcessReturn("nil", "nil")
                     /\ UNCHANGED cI
                [] res = "notfound" ->
                     /\ ProcessReturn("notfound", t)
                     /\ UNCHANGED cI
                [] res = "backoff" ->
                     /\ cpc' = "backoff"
                     /\ UNCHANGED <<spc, cI, cOutcome, cConsumed, cErrors, cInFlight,
                                    cOffset>>
                [] res = "next" ->
                     /\ cI' = cI + 1
                     /\ IF LoopContinues(cI + 1)
                        THEN UNCHANGED <<spc, cpc, cOutcome, cConsumed, cErrors,
                                         cInFlight, cOffset>>
                        ELSE ProcessReturn("exhausted", cErr')
    /\ UNCHANGED <<handlers, cCancelled, cMsg, cStartResult, cWaited,
                   cReadErrs>>
    /\ UNCHANGED ccvars
    /\ UNCHANGED NotConsumer

\* The select of processWithRetry (lines 136-140) and the i++ after it
CBackoff ==
    /\ cpc = "backoff"
    /\ \E branch \in CSelectBackoff(cCancelled) :
         IF branch = "timer"
         THEN /\ cWaited' = cWaited + CBackoffDuration(cI)
              /\ cI' = cI + 1
              /\ IF LoopContinues(cI + 1)
                 THEN /\ cpc' = "dispatch"
                      /\ UNCHANGED <<spc, cOutcome, cConsumed, cErrors, cInFlight,
                                     cOffset>>
                 ELSE ProcessReturn("exhausted", cErr)
         ELSE \* return ctx.Err()
              /\ ProcessReturn("canceled", "canceled")
              /\ UNCHANGED <<cI, cWaited>>
    /\ UNCHANGED <<handlers, cCancelled, cMsg, cErr, cStartResult,
                   cCalls, cIters, cLastHErr, cType, cDecoded, cReadErrs>>
    /\ UNCHANGED ccvars
    /\ UNCHANGED NotConsumer

\* The context given to Start is cancelled
CCancel ==
    /\ spc # "terminated"
    /\ ~cCancelled
    /\ cCancelled' = TRUE
    /\ UNCHANGED <<spc, cpc, handlers, cOffset, cMsg, cI, cErr, cOutcome,
                   cStartResult, cConsumed, cErrors, cCalls, cIters, cWaited,
                   cLastHErr, cType, cDecoded, cInFlight, cReadErrs>>
    /\ UNCHANGED ccvars
    /\ UNCHANGED NotConsumer

\* The steps of the goroutine that runs Start
\* The commit loop of the reader ticks (CommitInterval: time.Second): the
\* offset it holds is committed for the group
CommitTick ==
    /\ cStaged # -1
    /\ cStaged # cCommitted
    /\ cCommitted' = cStaged
    /\ UNCHANGED <<spc, cpc, handlers, cCancelled, cOffset, cMsg, cI, cErr,
                   cOutcome, cStartResult, cConsumed, cErrors, cCalls, cIters,
                   cWaited, cLastHErr, cType, cDecoded, cInFlight, cReadErrs,
                   cStaged, cLogEnd, cCrashes, cCrashMsg>>
    /\ UNCHANGED NotConsumer

\* The last handler invocation for the message in cMsg returned nil
HandledOk ==
    /\ cMsg # NoMsg
    /\ cCalls >= 1
    /\ cErr = "nil"
    /\ cMsg.offset \notin cInFlight

\* The consumer process dies and a new one is started with NewConsumer: what
\* the process held is gone, what the broker holds stays
CrashRestart ==
    /\ spc # "new"
    /\ cCrashes < MaxCrashes
    /\ cCrashes' = cCrashes + 1
    /\ cCrashMsg' = IF HandledOk /\ cCommitted <= cMsg.offset
                    THEN cMsg.offset ELSE -1
    /\ cOffset' = StartPosition(cCommitted, cLogEnd)
    /\ cStaged' = -1
    /\ spc' = "new"
    /\ cpc' = "idle"
    /\ handlers' = [t \in {} |-> "ok"]
    /\ cCancelled' = FALSE
    /\ cMsg' = NoMsg
    /\ cI' = 0
    /\ cErr' = "nil"
    /\ cOutcome' = NoOutcome
    /\ cStartResult' = "none"
    /\ cConsumed' = 0
    /\ cErrors' = [k \in ConsumerErrKinds |-> 0]
    /\ cCalls' = 0
    /\ cIters' = 0
    /\ cWaited' = 0
    /\ cLastHErr' = "nil"
    /\ cType' = ""
    /\ cDecoded' = FALSE
    /\ cInFlight' = {}
    /\ UNCHANGED <<cCommitted, cLogEnd, cReadErrs>>
    /\ UNCHANGED NotConsumer

CStep ==
    \/ StartSelect
    \/ \E hdr \in Headers, payload \in Payloads : ReadMessage(hdr, payload)
    \/ ReadError
    \/ \E herr \in {"nil", "none"} \cup HandlerErrs : Dispatch(herr)
    \/ CBackoff

CNext ==
    \/ \E t \in MsgTypes, b \in Behaviours : RegisterHandler(t, b)
    \/ Start
    \/ StartSelect
    \/ \E hdr \in Headers, payload \in Payloads : ReadMessage(hdr, payload)
    \/ ReadError
    \/ \E herr \in {"nil", "none"} \cup HandlerErrs : Dispatch(herr)
    \/ CBackoff
    \/ CCancel

\* The consumer with the commit loop of its reader and with crashes.  The
\* commit loop and the restart position do not look at what a message
\* holds: the messages here are all of one type, named by their header.
CCrashNext ==
    \/ \E b \in Behaviours : RegisterHandler("A", b)
    \/ Start
    \/ StartSelect
    \/ ReadMessage([present |-> TRUE, value |-> "A"], Envelope("A"))
    \/ ReadError
    \/ \E herr \in {"nil", "none"} \cup HandlerErrs : Dispatch(herr)
    \/ CBackoff
    \/ CCancel
    \/ CommitTick
    \/ CrashRestart

----------------------------------------------------------------------------
(* Booking domain and repository *)

BookingStatuses == {"pending", "confirmed", "cancelled", "completed", "failed"}
Resources == {"r1", "r2"}
Times == 0..MaxTime

\* The values a domain.Booking can hold in the fields the model follows
BookingValues ==
    [resource : Resources, start : Times, end : Times, status : BookingStatuses]

\* Booking.IsActive
IsActive(b) ==
    b.status = "pending" \/ b.status = "confirmed"

\* Booking.CanBeCancelled
CanBeCancelledPendingOnly(b) ==
    b.status = "pending"

CanBeCancelled(b) ==
    b.status = "pending" \/ b.status = "confirmed"

\* Booking.CanBeUpdated
CanBeUpdated(b) ==
    b.status = "pending"

\* Booking.IsOverlapping: Before and After are strict comparisons
IsOverlappingInclusive(b, other) ==
    /\ b.resource = other.resource
    /\ b.start <= other.end
    /\ b.end >= other.start

IsOverlapping(b, other) ==
    /\ b.resource = other.resource
    /\ b.start < other.end
    /\ b.end > other.start

\* Number of $n placeholders in the statement of Create (line 40)
CreatePlaceholders == 12
\* Number of arguments Create passes to Exec (lines 44-46)
CreateArgs == 12

\* Update formats each SET part and the WHERE clause with "%s = %d": the
\* statement holds the bare numbers 1, 2, ... and no $n placeholder
UpdatePlaceholdersDollar(updates) ==
    Cardinality(DOMAIN updates) + 1 + 1

UpdatePlaceholders(updates) ==
    0

\* Arguments Update passes to Exec: one per entry of updates, to which
\* updated_at was added, and the id
UpdateArgs(updates) ==
    Cardinality(DOMAIN updates) + 1 + 1

\* db.ExecContext: the server rejects a statement whose number of
\* parameters differs from the number of arguments bound to it
ExecAccepts(placeholders, args) ==
    placeholders = args

\* The maps of updates callers pass to Update
UpdateMaps ==
    {[f \in {} |-> "none"]}
        \cup {[f \in {"status"} |-> s] : s \in BookingStatuses}
        \cup {[f \in {"end_time"} |-> t] : t \in Times}

\* The row b after the SET of the fields in updates
ApplyUpdates(b, updates) ==
    [b EXCEPT !.status = IF "status" \in DOMAIN updates THEN updates["status"] ELSE @,
              !.end = IF "end_time" \in DOMAIN updates THEN updates["end_time"] ELSE @]

BInit ==
    /\ bookings = {}
    /\ bNextId = 0
    /\ bResult = "none"
    /\ bLast = [op |-> "none", id |-> -1, status |-> "none"]

\* PostgresBookingRepository.Create: a fresh id, then an unconditional INSERT
Create(b, dbOk) ==
    /\ bNextId < MaxBookings
    /\ bNextId' = bNextId + 1
    /\ bLast' = [op |-> "Create", id |-> bNextId, status |-> b.status]
    /\ IF ExecAccepts(CreatePlaceholders, CreateArgs) /\ dbOk
       THEN /\ bookings' = bookings \cup {[id |-> bNextId, resource |-> b.resource,
                                           start |-> b.start, end |-> b.end,
                                           status |-> b.status]}
            /\ bResult' = "nil"
       ELSE /\ bResult' = "internal"
            /\ UNCHANGED bookings
    /\ UNCHANGED NotBooking

\* PostgresBookingRepository.Update
Update(id, updates) ==
    /\ bLast' = [op |-> "Update", id |-> id,
                 status |-> IF "status" \in DOMAIN updates
                            THEN updates["status"] ELSE "none"]
    /\ IF DOMAIN updates = {}
       THEN /\ bResult' = "nil"
            /\ UNCHANGED bookings
       ELSE IF ~ExecAccepts(UpdatePlaceholders(updates), UpdateArgs(updates))
       THEN /\ bResult' = "internal"
            /\ UNCHANGED bookings
       ELSE IF \E r \in bookings : r.id = id
       THEN /\ bookings' = {IF r.id = id THEN ApplyUpdates(r, updates) ELSE r :
                                r \in bookings}
            /\ bResult' = "nil"
       ELSE /\ bResult' = "notfound"
            /\ UNCHANGED bookings
    /\ UNCHANGED bNextId
    /\ UNCHANGED NotBooking

\* PostgresBookingRepository.Delete
Delete(id) ==
    /\ bLast' = [op |-> "Delete", id |-> id, status |-> "none"]
    /\ IF \E r \in bookings : r.id = id
       THEN /\ bookings' = {r \in bookings : r.id # id}
            /\ bResult' = "nil"
       ELSE /\ bResult' = "notfound"
            /\ UNCHANGED bookings
    /\ UNCHANGED bNextId
    /\ UNCHANGED NotBooking

BNext ==
    \/ \E b \in BookingValues, dbOk \in BOOLEAN : Create(b, dbOk)
    \/ \E id \in 0..(MaxBookings - 1), updates \in UpdateMaps : Update(id, updates)
    \/ \E id \in 0..(MaxBookings - 1) : Delete(id)

\* The repository called with bookings of one resource and one interval,
\* in any status
BStatusNext ==
    \/ \E s \in BookingStatuses, dbOk \in BOOLEAN :
         Create([resource |-> "r1", start |-> 0, end |-> 1, status |-> s], dbOk)
    \/ \E id \in 0..(MaxBookings - 1), updates \in UpdateMaps : Update(id, updates)
    \/ \E id \in 0..(MaxBookings - 1) : Delete(id)

\* IsOverlapping applied to two bookings
OIdle ==
    /\ oa = [resource |-> "r1", start |-> 0, end |-> 0, status |-> "pending"]
    /\ ob = [resource |-> "r1", start |-> 0, end |-> 0, status |-> "pending"]
    /\ oRes = FALSE
    /\ oDone = FALSE
    /\ sUpd = FALSE
    /\ sCan = FALSE
    /\ sAct = FALSE
    /\ sDone = FALSE

OInit ==
    /\ oa \in BookingValues
    /\ ob \in BookingValues
    /\ oRes = FALSE
    /\ oDone = FALSE
    /\ sUpd = FALSE
    /\ sCan = FALSE
    /\ sAct = FALSE
    /\ sDone = FALSE

CallIsOverlapping ==
    /\ ~oDone
    /\ oRes' = IsOverlapping(oa, ob)
    /\ oDone' = TRUE
    /\ UNCHANGED <<oa, ob, sUpd, sCan, sAct, sDone>>
    /\ UNCHANGED NotOverlap

ONext ==
    CallIsOverlapping

\* CanBeUpdated, CanBeCancelled and IsActive applied to the booking oa
CallStatusPredicates ==
    /\ ~sDone
    /\ sUpd' = CanBeUpdated(oa)
    /\ sCan' = CanBeCancelled(oa)
    /\ sAct' = IsActive(oa)
    /\ sDone' = TRUE
    /\ UNCHANGED <<oa, ob, oRes, oDone>>
    /\ UNCHANGED NotOverlap

SNext ==
    CallStatusPredicates

----------------------------------------------------------------------------
(* User service and repository *)

\* Goroutines of the HTTP server that call the UserService
Callers == {"c1", "c2"}
Emails == {"e1", "e2"}
UserIds == 0..(MaxUsers - 1)
EventTypes == {"user.created", "user.updated", "user.deleted"}

\* UpdateUserRequest: an empty field is left out of the updates
UpdateRequests ==
    {[name |-> "", email |-> ""], [name |-> "n1", email |-> ""],
     [name |-> "", email |-> "e2"]}

\* What Produce does with the event and what it returns to the service: an
\* error comes with no acknowledged write; nil comes with an acknowledged
\* write or, after three failed writes, without one (writeWithRetry returns
\* its outer err, which is never assigned)
ProduceOutcomes ==
    {[err |-> "nil", acked |-> TRUE], [err |-> "nil", acked |-> FALSE],
     [err |-> "failed", acked |-> FALSE]}

NoCall == [op |-> "none", pc |-> "idle", id |-> -1,
           req |-> [name |-> "", email |-> ""], result |-> "none",
           wrote |-> FALSE, pub |-> "none"]

\* SELECT ... WHERE id = $1 AND active = true
GetByID(id) ==
    {u \in users : u.id = id /\ u.active}

\* SELECT ... WHERE email = $1 AND active = true
GetByEmail(email) ==
    {u \in users : u.email = email /\ u.active}

\* What the service returns after Produce returned err: the error is logged
\* only (lines 128-130, 231-233, 262-264)
AfterProducePropagates(err) ==
    IF err = "nil" THEN "nil" ELSE "internal"

AfterProduce(err) ==
    "nil"

\* The type of the event each operation publishes
EventOf(op) ==
    CASE op = "CreateUser" -> "user.created"
      [] op = "UpdateUser" -> "user.updated"
      [] op = "DeleteUser" -> "user.deleted"

\* if err := s.repo.Create / Update / Delete(...); err != nil { return }
\* (lines 113-115, 213-215, 250-252): whether the call returns the error of
\* the repository write or goes on
WriteErrReturnsUnchecked(err) ==
    FALSE

WriteErrReturns(err) ==
    err # "nil"

\* The call after its repository write returned err
AfterWrite(call, err) ==
    IF WriteErrReturns(err)
    THEN [call EXCEPT !.pc = "returned", !.result = err]
    ELSE [call EXCEPT !.pc = IF call.op = "UpdateUser" THEN "reread" ELSE "publish",
                      !.wrote = (err = "nil")]

UReturn(c, result) ==
    uc' = [uc EXCEPT ![c].pc = "returned", ![c].result = result]

UInit ==
    /\ users = {}
    /\ uNextId = 0
    /\ uc = [c \in Callers |-> NoCall]
    /\ uEvents = [k \in EventTypes \X UserIds |-> 0]
    /\ uCalls = 0

UBegin(c, op, id, req, valid) ==
    /\ uc[c].pc \in {"idle", "returned"}
    /\ uCalls < MaxUserCalls
    /\ uCalls' = uCalls + 1
    /\ uc' = [uc EXCEPT ![c] =
                [op |-> op, pc |-> IF valid THEN "lookup" ELSE "returned",
                 id |-> id, req |-> req,
                 result |-> IF valid THEN "none" ELSE "validation",
                 wrote |-> FALSE, pub |-> "none"]]
    /\ UNCHANGED <<users, uNextId, uEvents>>
    /\ UNCHANGED NotUser

\* CreateUser is called; ValidateStruct (lines 93-96)
CreateUser(c, email, valid) ==
    UBegin(c, "CreateUser", -1, [name |-> "n0", email |-> email], valid)

\* CreateUser: GetByEmail and HashPassword (lines 98-111)
CreateUserGetByEmail(c, dbOk, hashOk) ==
    /\ uc[c].op = "CreateUser"
    /\ uc[c].pc = "lookup"
    /\ IF dbOk /\ GetByEmail(uc[c].req.email) # {}
       THEN UReturn(c, "conflict")
       ELSE IF ~hashOk
       THEN UReturn(c, "internal")
       ELSE uc' = [uc EXCEPT ![c].pc = "write"]
    /\ UNCHANGED <<users, uNextId, uEvents, uCalls>>
    /\ UNCHANGED NotUser

\* CreateUser: repo.Create (lines 113-115); the INSERT can fail, with a
\* duplicate-key error when a row holds the email
CreateUserRepoCreate(c, outcome) ==
    /\ uc[c].op = "CreateUser"
    /\ uc[c].pc = "write"
    /\ uNextId < MaxUsers
    /\ outcome = "conflict" => \E u \in users : u.email = uc[c].req.email
    /\ uNextId' = uNextId + 1
    /\ users' = IF outcome = "nil"
                THEN users \cup {[id |-> uNextId, email |-> uc[c].req.email,
                                  name |-> uc[c].req.name, active |-> TRUE]}
                ELSE users
    /\ uc' = [uc EXCEPT ![c] = AfterWrite(@, outcome), ![c].id = uNextId]
    /\ UNCHANGED <<uEvents, uCalls>>
    /\ UNCHANGED NotUser

\* UpdateUser is called; ValidateStruct (lines 191-194)
UpdateUser(c, id, req, valid) ==
    UBegin(c, "UpdateUser", id, req, valid)

\* UpdateUser: GetByID, the updates map, and GetUser when it is empty
\* (lines 196-211)
UpdateUserGetByID(c, dbOk) ==
    /\ uc[c].op = "UpdateUser"
    /\ uc[c].pc = "lookup"
    /\ IF ~dbOk
       THEN UReturn(c, "internal")
       ELSE IF GetByID(uc[c].id) = {}
       THEN UReturn(c, "notfound")
       ELSE IF uc[c].req.name = "" /\ uc[c].req.email = ""
       THEN UReturn(c, "nil")
       ELSE uc' = [uc EXCEPT ![c].pc = "write"]
    /\ UNCHANGED <<users, uNextId, uEvents, uCalls>>
    /\ UNCHANGED NotUser

\* UpdateUser: repo.Update (lines 213-215), UPDATE users SET ... WHERE id = $n
UpdateUserRepoUpdate(c, dbOk) ==
    /\ uc[c].op = "UpdateUser"
    /\ uc[c].pc = "write"
    /\ LET outcome == IF ~dbOk THEN "internal"
                      ELSE IF \A u \in users : u.id # uc[c].id THEN "notfound"
                      ELSE "nil"
       IN  /\ users' = IF outcome # "nil" THEN users
                       ELSE {IF u.id # uc[c].id THEN u
                             ELSE [u EXCEPT
                                     !.name = IF uc[c].req.name # ""
                                              THEN uc[c].req.name ELSE @,
                                     !.email = IF uc[c].req.email # ""
                                               THEN uc[c].req.email ELSE @] :
                                u \in users}
           /\ uc' = [uc EXCEPT ![c] = AfterWrite(@, outcome)]
    /\ UNCHANGED <<uNextId, uEvents, uCalls>>
    /\ UNCHANGED NotUser

\* UpdateUser: the second GetByID (lines 217-220)
UpdateUserReread(c, dbOk) ==
    /\ uc[c].op = "UpdateUser"
    /\ uc[c].pc = "reread"
    /\ IF ~dbOk
       THEN UReturn(c, "internal")
       ELSE IF GetByID(uc[c].id) = {}
       THEN UReturn(c, "notfound")
       ELSE uc' = [uc EXCEPT ![c].pc = "publish"]
    /\ UNCHANGED <<users, uNextId, uEvents, uCalls>>
    /\ UNCHANGED NotUser

\* DeleteUser is called
DeleteUser(c, id) ==
    UBegin(c, "DeleteUser", id, [name |-> "", email |-> ""], TRUE)

\* DeleteUser: GetByID (lines 245-248)
DeleteUserGetByID(c, dbOk) ==
    /\ uc[c].op = "DeleteUser"
    /\ uc[c].pc = "lookup"
    /\ IF ~dbOk
       THEN UReturn(c, "internal")
       ELSE IF GetByID(uc[c].id) = {}
       THEN UReturn(c, "notfound")
       ELSE uc' = [uc EXCEPT ![c].pc = "write"]
    /\ UNCHANGED <<users, uNextId, uEvents, uCalls>>
    /\ UNCHANGED NotUser

\* DeleteUser: repo.Delete (lines 250-252),
\* UPDATE users SET active = false, updated_at = $1 WHERE id = $2
DeleteUserRepoDelete(c, dbOk) ==
    /\ uc[c].op = "DeleteUser"
    /\ uc[c].pc = "write"
    /\ LET outcome == IF ~dbOk THEN "internal"
                      ELSE IF \A u \in users : u.id # uc[c].id THEN "notfound"
                      ELSE "nil"
       IN  /\ users' = IF outcome # "nil" THEN users
                       ELSE {IF u.id # uc[c].id THEN u
                             ELSE [u EXCEPT !.active = FALSE] : u \in users}
           /\ uc' = [uc EXCEPT ![c] = AfterWrite(@, outcome)]
    /\ UNCHANGED <<uNextId, uEvents, uCalls>>
    /\ UNCHANGED NotUser

\* The Produce call that ends CreateUser, UpdateUser and DeleteUser, and the
\* return that follows it (lines 128-135, 231-238, 262-270)
UserProduce(c, outcome) ==
    /\ uc[c].pc = "publish"
    /\ uEvents' = IF outcome.acked
                  THEN [uEvents EXCEPT ![<<EventOf(uc[c].op), uc[c].id>>] = @ + 1]
                  ELSE uEvents
    /\ uc' = [uc EXCEPT ![c].pc = "returned",
                        ![c].pub = IF outcome.err = "nil" THEN "nil" ELSE "failed",
                        ![c].result = AfterProduce(outcome.err)]
    /\ UNCHANGED <<users, uNextId, uCalls>>
    /\ UNCHANGED NotUser

UNext ==
    \/ \E c \in Callers, email \in Emails, valid \in BOOLEAN : CreateUser(c, email, valid)
    \/ \E c \in Callers, dbOk \in BOOLEAN, hashOk \in BOOLEAN :
         CreateUserGetByEmail(c, dbOk, hashOk)
    \/ \E c \in Callers, outcome \in {"nil", "conflict", "internal"} :
         CreateUserRepoCreate(c, outcome)
    \/ \E c \in Callers, id \in UserIds, req \in UpdateRequests, valid \in BOOLEAN :
         UpdateUser(c, id, req, valid)
    \/ \E c \in Callers, dbOk \in BOOLEAN : UpdateUserGetByID(c, dbOk)
    \/ \E c \in Callers, dbOk \in BOOLEAN : UpdateUserRepoUpdate(c, dbOk)
    \/ \E c \in Callers, dbOk \in BOOLEAN : UpdateUserReread(c, dbOk)
    \/ \E c \in Callers, id \in UserIds : DeleteUser(c, id)
    \/ \E c \in Callers, dbOk \in BOOLEAN : DeleteUserGetByID(c, dbOk)
    \/ \E c \in Callers, dbOk \in BOOLEAN : DeleteUserRepoDelete(c, dbOk)
    \/ \E c \in Callers, outcome \in ProduceOutcomes : UserProduce(c, outcome)

----------------------------------------------------------------------------
(* Handler registries of two Consumer instances, with map accesses that
   take time *)

Instances == {"k1", "k2"}
RegTypes == {"A"}
HandlerFuncs == {"h1", "h2"}
NoAccess == "none"

\* handler, exists := c.handlers[messageType] (line 121): the lookup reads
\* the map of the instance, which NewConsumer made for it (line 51)
LookupShared(regs, i, t) ==
    IF \E j \in Instances : t \in DOMAIN regs[j]
    THEN regs[CHOOSE j \in Instances : t \in DOMAIN regs[j]][t]
    ELSE "notfound"

Lookup(regs, i, t) ==
    IF t \in DOMAIN regs[i] THEN regs[i][t] ELSE "notfound"

\* processWithRetry, which reads the map, runs only inside Start
\* (lines 60-75, 95)
DispatchRunsAlways(started) ==
    TRUE

DispatchRuns(started) ==
    started

\* What a lookup can return: the entry of the map, or, when a write of the
\* same map overlapped it, anything the runtime does with an unsynchronized
\* map access
LookupResults(regs, i, t, raced) ==
    IF raced
    THEN {Lookup(regs, i, t), "notfound", "fatal"} \cup HandlerFuncs
    ELSE {Lookup(regs, i, t)}

RInit ==
    /\ reg = [i \in Instances |-> [t \in {} |-> "h1"]]
    /\ rStarted = [i \in Instances |-> FALSE]
    /\ rWriting = [i \in Instances |-> [t |-> NoAccess, h |-> NoAccess]]
    /\ rReading = [i \in Instances |-> [t |-> NoAccess, raced |-> FALSE]]
    /\ rFound = [i \in Instances |-> "none"]
    /\ rRace = [i \in Instances |-> FALSE]
    /\ rLate = [i \in Instances |-> FALSE]

\* RegisterHandler is called on instance i and enters the map assignment
\* (line 57); nothing in the code keeps it from being called at any time
RegisterBegin(i, t, h) ==
    /\ rWriting[i].t = NoAccess
    /\ rWriting' = [rWriting EXCEPT ![i] = [t |-> t, h |-> h]]
    /\ rLate' = [rLate EXCEPT ![i] = @ \/ rStarted[i]]
    /\ rRace' = [rRace EXCEPT ![i] = @ \/ rReading[i].t # NoAccess]
    /\ rReading' = [rReading EXCEPT ![i].raced = @ \/ rReading[i].t # NoAccess]
    /\ UNCHANGED <<reg, rStarted, rFound>>
    /\ UNCHANGED NotRegistry

\* The map assignment of RegisterHandler completes and the call returns
RegisterEnd(i) ==
    /\ rWriting[i].t # NoAccess
    /\ reg' = [reg EXCEPT ![i] =
                 [x \in DOMAIN reg[i] \cup {rWriting[i].t} |->
                     IF x = rWriting[i].t THEN rWriting[i].h ELSE reg[i][x]]]
    /\ rWriting' = [rWriting EXCEPT ![i] = [t |-> NoAccess, h |-> NoAccess]]
    /\ UNCHANGED <<rStarted, rReading, rFound, rRace, rLate>>
    /\ UNCHANGED NotRegistry

\* Start begins on instance i
RegistryStart(i) ==
    /\ ~rStarted[i]
    /\ rStarted' = [rStarted EXCEPT ![i] = TRUE]
    /\ rLate' = [rLate EXCEPT ![i] = @ \/ rWriting[i].t # NoAccess]
    /\ UNCHANGED <<reg, rWriting, rReading, rFound, rRace>>
    /\ UNCHANGED NotRegistry

\* A dispatch of instance i enters the lookup of line 121
LookupBegin(i, t) ==
    /\ DispatchRuns(rStarted[i])
    /\ rReading[i].t = NoAccess
    /\ rReading' = [rReading EXCEPT ![i] = [t |-> t, raced |-> rWriting[i].t # NoAccess]]
    /\ rRace' = [rRace EXCEPT ![i] = @ \/ rWriting[i].t # NoAccess]
    /\ UNCHANGED <<reg, rStarted, rWriting, rFound, rLate>>
    /\ UNCHANGED NotRegistry

\* The lookup returns
LookupEnd(i, result) ==
    /\ rReading[i].t # NoAccess
    /\ result \in LookupResults(reg, i, rReading[i].t, rReading[i].raced)
    /\ rFound' = [rFound EXCEPT ![i] = result]
    /\ rReading' = [rReading EXCEPT ![i] = [t |-> NoAccess, raced |-> FALSE]]
    /\ UNCHANGED <<reg, rStarted, rWriting, rRace, rLate>>
    /\ UNCHANGED NotRegistry

RNext ==
    \/ \E i \in Instances, t \in RegTypes, h \in HandlerFuncs : RegisterBegin(i, t, h)
    \/ \E i \in Instances : RegisterEnd(i)
    \/ \E i \in Instances : RegistryStart(i)
    \/ \E i \in Instances, t \in RegTypes : LookupBegin(i, t)
    \/ \E i \in Instances, result \in {"notfound", "fatal"} \cup HandlerFuncs :
         LookupEnd(i, result)

----------------------------------------------------------------------------
(* Timeout middleware *)

\* finished := make(chan struct{}) (line 20): the channel has no buffer, a
\* send completes only together with a receive
FinishedCapacity == 0

\* The cases of the select of lines 31-39 that are ready
SelectReady(go, ctx) ==
    (IF go = "send" THEN {"finished"} ELSE {})
        \cup (IF ctx # "live" THEN {"ctxDone"} ELSE {})

TInit ==
    /\ tMain = "idle"
    /\ tGo = "none"
    /\ tCtx = "live"
    /\ tWrites = {}
    /\ tReqs = 0
    /\ tLeaked = 0

\* A request reaches the middleware: lines 15-29, up to the select
TimeoutBegin ==
    /\ tMain \in {"idle", "returned"}
    /\ tGo # "handler"
    /\ tReqs < MaxRequests
    /\ tReqs' = tReqs + 1
    /\ tLeaked' = IF tGo = "send" THEN tLeaked + 1 ELSE tLeaked
    /\ tMain' = "select"
    /\ tGo' = "handler"
    /\ tCtx' = "live"
    /\ tWrites' = {}
    /\ UNCHANGED NotTimeout

\* c.Next() returns or panics in the goroutine (lines 22-28); the handlers
\* may have written a response.  After a recovered panic the goroutine ends
\* without reaching the send; otherwise it is at finished <- struct{}{}, and
\* with a buffered channel the send would complete at once.
HandlersReturn(writes, panics) ==
    /\ tGo = "handler"
    /\ tWrites' = IF writes THEN tWrites \cup {"handler"} ELSE tWrites
    /\ tGo' = IF panics THEN "panicked"
              ELSE IF FinishedCapacity > 0 THEN "done"
              ELSE "send"
    /\ UNCHANGED <<tMain, tCtx, tReqs, tLeaked>>
    /\ UNCHANGED NotTimeout

\* The deadline of context.WithTimeout passes
DeadlineExpires ==
    /\ tMain = "select"
    /\ tCtx = "live"
    /\ tCtx' = "deadline"
    /\ UNCHANGED <<tMain, tGo, tWrites, tReqs, tLeaked>>
    /\ UNCHANGED NotTimeout

\* The request's own context is cancelled (the client went away)
RequestCancelled ==
    /\ tMain = "select"
    /\ tCtx = "live"
    /\ tCtx' = "canceled"
    /\ UNCHANGED <<tMain, tGo, tWrites, tReqs, tLeaked>>
    /\ UNCHANGED NotTimeout

\* The select of lines 31-39 takes a ready case, and the middleware returns
\* (defer cancel())
TimeoutSelect(branch) ==
    /\ tMain = "select"
    /\ branch \in SelectReady(tGo, tCtx)
    /\ tMain' = "returned"
    /\ IF branch = "finished"
       THEN /\ tGo' = "done"
            /\ tCtx' = IF tCtx = "live" THEN "canceled" ELSE tCtx
            /\ UNCHANGED tWrites
       ELSE /\ tWrites' = IF tCtx = "deadline"
                          THEN tWrites \cup {"timeout"} ELSE tWrites
            /\ UNCHANGED <<tGo, tCtx>>
    /\ UNCHANGED <<tReqs, tLeaked>>
    /\ UNCHANGED NotTimeout

TNext ==
    \/ TimeoutBegin
    \/ \E writes \in BOOLEAN, panics \in BOOLEAN : HandlersReturn(writes, panics)
    \/ DeadlineExpires
    \/ RequestCancelled
    \/ \E branch \in {"finished", "ctxDone"} : TimeoutSelect(branch)

----------------------------------------------------------------------------
(* Specifications *)

Init ==
    PInit /\ CInit /\ BInit /\ OIdle /\ UInit /\ RInit /\ TInit

InitOverlap ==
    PInit /\ CInit /\ BInit /\ OInit /\ UInit /\ RInit /\ TInit

SpecTimeout ==
    Init /\ [][TNext]_vars

SpecRegistry ==
    Init /\ [][RNext]_vars

SpecUser ==
    Init /\ [][UNext]_vars

SpecProducer ==
    Init /\ [][PNext]_vars

SpecConsumer ==
    Init /\ [][CNext]_vars

\* The goroutine running Start keeps being scheduled; a handler invocation
\* returns, a timer fires, and a read blocked on the broker is released
\* when the context is done.
SpecConsumerFair ==
    Init /\ [][CNext]_vars /\ WF_vars(CStep)

SpecConsumerCrash ==
    Init /\ [][CCrashNext]_vars

SpecBooking ==
    Init /\ [][BNext]_vars

SpecBookingStatus ==
    Init /\ [][BStatusNext]_vars

SpecOverlap ==
    InitOverlap /\ [][ONext]_vars

SpecStatus ==
    InitOverlap /\ [][SNext]_vars

----------------------------------------------------------------------------
(* Producer claims *)

\* C1: Produce returns success only if some WriteMessages attempt was
\* acknowledged: when all ProducerMaxRetries attempts failed and the context
\* is not cancelled, Produce returns a non-nil error carrying the last write
\* error.
C1_ProduceFailsWhenAllWritesFail ==
    (ppc = "returned" /\ pAttempts = ProducerMaxRetries /\ pAcks = 0 /\ ~pCancelled)
        => (pResult.err = "produce" /\ pResult.cause = pLastWriteErr)

\* C5: when the context is cancelled during a backoff of writeWithRetry,
\* the next step of the call is Produce returning a non-nil cancellation
\* error, with no further WriteMessages attempt.
C5_ProducerCancelInBackoff ==
    [][(ppc = "backoff" /\ pCancelled)
          => (/\ ppc' = "returned"
              /\ pResult' = [err |-> "produce", cause |-> "canceled"]
              /\ pAttempts' = pAttempts
              /\ pAcks' = pAcks)]_vars

C5_Witness ==
    /\ ppc = "returned"
    /\ pCancelled
    /\ pResult = [err |-> "produce", cause |-> "canceled"]
    /\ pAttempts \in 1..(ProducerMaxRetries - 1)
    /\ pWaited < Backoff(0) + Backoff(1)

----------------------------------------------------------------------------
\* C13: every message Produce hands to WriteMessages carries a message-type
\* header (whose value is the envelope's type), next to content-type and the
\* optional trace-id.
C13_MessageTypeHeader ==
    pAttempts >= 1
        => /\ "message-type" \in pMsg.headers
           /\ "content-type" \in pMsg.headers

\* C16: when the payload cannot be serialized, Produce returns an error at
\* once: no WriteMessages attempt, no backoff, and the failure is counted
\* under kind "serialization" only.
C16_SerializationNotRetried ==
    /\ [](~pValueOk
            => (/\ ppc = "returned"
                /\ pResult.err = "marshal"
                /\ pAttempts = 0
                /\ pWaited = 0
                /\ pAcks = 0))
    /\ [][(pCalls' = pCalls + 1 /\ ~pValueOk')
             => (/\ pErrors' = [pErrors EXCEPT !["serialization"] = @ + 1]
                 /\ pProduced' = pProduced)]_vars

C16_Witness ==
    /\ ~pValueOk
    /\ ppc = "returned"
    /\ pErrors["serialization"] = 1
    /\ pErrors["produce"] = 0

\* C18: writeWithRetry makes at most ProducerMaxRetries attempts; the wait
\* after failed attempt k is k seconds, there is no wait after the last
\* attempt, and a publish whose three attempts failed has waited 1 + 2
\* seconds.
C18_ProducerBackoff ==
    /\ [](pAttempts <= ProducerMaxRetries)
    /\ [][(ppc = "backoff" /\ ppc' = "write")
             => pWaited' = pWaited + pAttempts]_vars
    /\ [](ppc \in {"write", "backoff"} => pWaited = (pI * (pI + 1)) \div 2)
    /\ []((ppc = "returned" /\ pAttempts = ProducerMaxRetries /\ pAcks = 0)
             => pWaited = 1 + 2)
    /\ []((ppc = "returned" /\ pAttempts >= 1 /\ ~pCancelled)
             => pWaited = ((pAttempts - 1) * pAttempts) \div 2)

C18_Witness ==
    /\ ppc = "returned"
    /\ pAttempts = ProducerMaxRetries
    /\ pAcks = 0
    /\ ~pCancelled
    /\ pWaited = 3

\* Sum of the error counts of the topic over the failure kinds
PErrTotal(e) ==
    e["serialization"] + e["produce"]

\* C22: each Produce call changes exactly one counter: the produced-count
\* goes up by one exactly when a write of the call was acknowledged, and the
\* error-count goes up by one exactly when none was.
C22_OneCounterPerProduce ==
    [][(ppc' = "returned" /\ (ppc # "returned" \/ pCalls' # pCalls))
          => /\ \/ (pProduced' = pProduced + 1 /\ pErrors' = pErrors)
                \/ (pProduced' = pProduced
                      /\ PErrTotal(pErrors') = PErrTotal(pErrors) + 1)
             /\ (pProduced' = pProduced + 1) <=> (pAcks' >= 1)
             /\ (PErrTotal(pErrors') = PErrTotal(pErrors) + 1) <=> (pAcks' = 0)]_vars

\* C29: within one Produce call no WriteMessages attempt follows an
\* acknowledged one: the call returns in the step of the acknowledgement, so
\* a call has at most one acknowledged write.
C29_StopsAtFirstAck ==
    /\ [](pAcks <= 1)
    /\ [](pAcks = 1 => ppc = "returned")
    /\ [][(pAcks = 1 /\ pCalls' = pCalls)
             => (pAttempts' = pAttempts /\ pAcks' = pAcks)]_vars

C29_Witness ==
    /\ ppc = "returned"
    /\ pAcks = 1
    /\ pAttempts = 2
    /\ pWaited = 1

----------------------------------------------------------------------------
(* Consumer claims *)

\* processMessage has returned from the dispatch of the message in cMsg
DispatchEnded ==
    /\ cpc = "idle"
    /\ cMsg # NoMsg
    /\ cOutcome.kind \in {"nil", "notfound", "exhausted", "canceled"}
    /\ cMsg.offset \notin cInFlight

\* C2: a registered handler that fails on every invocation is invoked
\* exactly ConsumerMaxRetries times when there is no cancellation, the message
\* then ends in a retries-exhausted error wrapping the last handler error, and
\* no message sees more than ConsumerMaxRetries invocations for one read.
C2_RetryBound ==
    /\ cCalls <= ConsumerMaxRetries
    /\ cOutcome.kind = "exhausted" /\ DispatchEnded
          => (cCalls = ConsumerMaxRetries /\ cOutcome.cause = cLastHErr
              /\ cLastHErr \in HandlerErrs)
    /\ (/\ DispatchEnded
        /\ ~cCancelled
        /\ ResolveType(cMsg) \in DOMAIN handlers
        /\ handlers[ResolveType(cMsg)] = "bad")
          => (cOutcome.kind = "exhausted" /\ cCalls = ConsumerMaxRetries)

C2_Witness ==
    /\ DispatchEnded
    /\ ~cCancelled
    /\ ResolveType(cMsg) \in DOMAIN handlers
    /\ handlers[ResolveType(cMsg)] = "bad"
    /\ cOutcome = [kind |-> "exhausted", cause |-> "h2"]
    /\ cCalls = ConsumerMaxRetries

\* C3: a message whose resolved type has no registered handler gets exactly
\* one dispatch attempt: no handler invocation, no backoff, no second loop
\* iteration, and a handler-not-found error at once.
C3_NoHandlerNoRetry ==
    /\ (cpc = "backoff" \/ cIters > 1 \/ cCalls > 0 \/ cWaited > 0)
          => ResolveType(cMsg) \in DOMAIN handlers
    /\ (DispatchEnded /\ ResolveType(cMsg) \notin DOMAIN handlers)
          => (/\ cOutcome = [kind |-> "notfound", cause |-> ResolveType(cMsg)]
              /\ cIters = 1
              /\ cCalls = 0
              /\ cWaited = 0)

C3_Witness ==
    /\ DispatchEnded
    /\ ResolveType(cMsg) \notin DOMAIN handlers
    /\ DOMAIN handlers # {}
    /\ cOutcome.kind = "notfound"
    /\ cIters = 1

\* C4: when the context is cancelled during a backoff of processWithRetry,
\* the next step is the return of the cancellation error, without the rest
\* of the wait and without another handler invocation for the message.
C4_ConsumerCancelInBackoff ==
    [][(cpc = "backoff" /\ cCancelled)
          => (/\ cpc' = "idle"
              /\ cOutcome' = [kind |-> "canceled", cause |-> "canceled"]
              /\ cCalls' = cCalls
              /\ cWaited' = cWaited
              /\ cMsg' = cMsg)]_vars

C4_Witness ==
    /\ DispatchEnded
    /\ cCancelled
    /\ cOutcome.kind = "canceled"
    /\ cCalls \in 1..(ConsumerMaxRetries - 1)
    /\ cWaited < CBackoffDuration(0) + CBackoffDuration(1)

\* C6: the loop of Start does not stop on a message's failure: when
\* processMessage returns, Start is back at its select, and from there,
\* while the context is not cancelled, its next step is the read of the
\* next message.
C6_LoopContinues ==
    [][/\ (cpc # "idle" /\ cpc' = "idle") => spc' = "select"
       /\ (spc = "select" /\ DispatchEnded /\ ~cCancelled /\ ~cCancelled')
             => (spc' = "call" /\ cpc' = "read")]_vars

C6_Witness ==
    /\ cpc = "read"
    /\ cMsg # NoMsg
    /\ cOutcome.kind = "exhausted"
    /\ ~cCancelled

\* C7: once the context is cancelled a started consumer eventually reaches
\* Terminated, returning the context's error, and Start returns for no other
\* reason than cancellation.
C7_TerminatesOnCancel ==
    /\ (cCancelled /\ spc # "new") ~> (spc = "terminated")
    /\ [](spc = "terminated" => (cCancelled /\ cStartResult = "canceled"))

C7_Witness ==
    /\ spc = "terminated"
    /\ cStartResult = "canceled"
    /\ cOutcome.kind = "canceled"
    /\ cOffset >= 1

\* C8: at most one message is in flight: a message is read only when the
\* dispatch of every message read before it has returned.
C8_OneInFlight ==
    /\ Cardinality(cInFlight) <= 1
    /\ cpc = "read" => cInFlight = {}
    /\ cInFlight # {} => (cInFlight = {cMsg.offset} /\ cpc \in {"dispatch", "backoff"})

C8_Witness ==
    /\ cpc = "backoff"
    /\ cMsg.offset = 1
    /\ cInFlight = {1}
    /\ cI = 1

----------------------------------------------------------------------------
(* Booking claims *)

\* The half-open intervals [a.start, a.end) and [b.start, b.end) share a point
Intersect(a, b) ==
    \E t \in Times : a.start <= t /\ t < a.end /\ b.start <= t /\ t < b.end

\* C9: no two stored bookings of the same resource that are both active
\* have intersecting [start, end) intervals.
C9_NoActiveOverlap ==
    \A a \in bookings, b \in bookings :
        (a.id # b.id /\ a.resource = b.resource /\ IsActive(a) /\ IsActive(b))
            => ~Intersect(a, b)

\* C26: every stored booking has end_time after start_time.
C26_EndAfterStart ==
    \A b \in bookings : b.end > b.start

\* C10 as stated: for all bookings a and b, IsOverlapping is true exactly
\* when the resources are equal and the half-open intervals intersect.
C10_OverlapIffIntersect ==
    oDone => (oRes <=> (oa.resource = ob.resource /\ Intersect(oa, ob)))

\* C10 amended: for bookings a and b that both have end > start,
\* IsOverlapping is true exactly when the resources are equal and the
\* half-open intervals intersect; two such bookings of one resource where one
\* ends when the other starts do not overlap.
C10_OverlapIffIntersectValid ==
    (oDone /\ oa.start < oa.end /\ ob.start < ob.end)
        => /\ oRes <=> (oa.resource = ob.resource /\ Intersect(oa, ob))
           /\ (oa.resource = ob.resource /\ oa.end = ob.start) => oRes = FALSE

C10_Witness ==
    /\ oDone
    /\ oRes = FALSE
    /\ oa.resource = ob.resource
    /\ oa.start < oa.end
    /\ ob.start < ob.end
    /\ oa.end = ob.start

\* C12: CanBeUpdated is true exactly in pending, CanBeCancelled exactly in
\* pending and confirmed, which is also where IsActive is true; both are
\* false in cancelled, completed and failed.
C12_StatusPredicates ==
    sDone =>
        /\ sUpd = (oa.status \in {"pending"})
        /\ sCan = (oa.status \in {"pending", "confirmed"})
        /\ sCan = sAct
        /\ oa.status \in {"cancelled", "completed", "failed"}
              => (~sUpd /\ ~sCan)

C12_Witness ==
    /\ sDone
    /\ oa.status = "confirmed"
    /\ sCan
    /\ ~sUpd


\* C19: in processWithRetry the wait after failed handler attempt k is k
\* seconds and nothing is waited after the last attempt, so a handler that
\* fails on all ConsumerMaxRetries attempts has waited 1 + 2 seconds; a
\* successful invocation returns at once, with no further wait or invocation
\* for that message.
C19_ConsumerBackoff ==
    /\ [][(cpc = "backoff" /\ cWaited' # cWaited)
             => cWaited' = cWaited + cCalls]_vars
    /\ []((DispatchEnded /\ cOutcome.kind = "exhausted")
             => (cCalls = ConsumerMaxRetries /\ cWaited = 1 + 2))
    /\ [][(cCalls' = cCalls + 1 /\ cErr' = "nil")
             => (/\ cpc' = "idle"
                 /\ cOutcome' = [kind |-> "nil", cause |-> "nil"]
                 /\ cWaited' = cWaited)]_vars
    /\ []((DispatchEnded /\ cOutcome.kind = "nil")
             => cWaited = ((cCalls - 1) * cCalls) \div 2)
    /\ [][(DispatchEnded /\ cMsg' = cMsg)
             => (cCalls' = cCalls /\ cWaited' = cWaited)]_vars

C19_Witness ==
    /\ DispatchEnded
    /\ cOutcome.kind = "exhausted"
    /\ ~cCancelled
    /\ cCalls = ConsumerMaxRetries
    /\ cWaited = 3

C19_WitnessSuccess ==
    /\ DispatchEnded
    /\ cOutcome.kind = "nil"
    /\ cCalls = 2
    /\ cWaited = 1


\* The type that the payload of m yields: its top-level "type" string
PayloadType(m) ==
    IF m.payload.json /\ m.payload.type # "absent" THEN m.payload.type ELSE ""

\* C20 (as stated): the type is the message-type header when it is present
\* and non-empty, and the payload is then not decoded; the payload is decoded
\* only when the header is absent, and then its "type" field is used; a
\* message that yields no type is treated as having no handler.
C20_TypeResolution ==
    (cMsg # NoMsg /\ cIters >= 1)
        => /\ (cMsg.hdr.present /\ cMsg.hdr.value # "")
                 => (cType = cMsg.hdr.value /\ ~cDecoded)
           /\ cDecoded => ~cMsg.hdr.present
           /\ ~cMsg.hdr.present => (cDecoded /\ cType = PayloadType(cMsg))
           /\ cType = "" => cCalls = 0
           /\ (cType = "" /\ DispatchEnded)
                 => cOutcome = [kind |-> "notfound", cause |-> ""]

\* C20 (amended): the payload is decoded exactly when the header is absent
\* or empty.
C20_TypeResolutionValid ==
    (cMsg # NoMsg /\ cIters >= 1)
        => /\ (cMsg.hdr.present /\ cMsg.hdr.value # "")
                 => (cType = cMsg.hdr.value /\ ~cDecoded)
           /\ cDecoded <=> (~cMsg.hdr.present \/ cMsg.hdr.value = "")
           /\ cDecoded => cType = PayloadType(cMsg)
           /\ cType = "" => cCalls = 0
           /\ (cType = "" /\ DispatchEnded)
                 => cOutcome = [kind |-> "notfound", cause |-> ""]

C20_Witness ==
    /\ DispatchEnded
    /\ cMsg.hdr = [present |-> TRUE, value |-> ""]
    /\ cMsg.payload.type = "A"
    /\ cDecoded
    /\ cType = "A"
    /\ cCalls >= 1
    /\ cOutcome.kind = "nil"

C20_WitnessHeader ==
    /\ DispatchEnded
    /\ cMsg.hdr = [present |-> TRUE, value |-> "B"]
    /\ cMsg.payload.type = "A"
    /\ cType = "B"
    /\ cCalls >= 1

C20_WitnessNoType ==
    /\ DispatchEnded
    /\ ~cMsg.hdr.present
    /\ cMsg.payload.json
    /\ cMsg.payload.type = "absent"
    /\ cOutcome.kind = "notfound"
    /\ handlers # << >>

\* C17: a message whose payload lacks id, type or data is never dispatched
\* successfully to a handler.
C17_RejectsIncompletePayload ==
    (DispatchEnded /\ cOutcome.kind = "nil" /\ cCalls >= 1)
        => /\ cMsg.payload.json
           /\ cMsg.payload.id
           /\ cMsg.payload.type # "absent"
           /\ cMsg.payload.data


TerminalStatuses == {"cancelled", "completed", "failed"}

AllowedTransitions ==
    {<<"pending", "confirmed">>, <<"confirmed", "completed">>}
        \cup ({"pending", "confirmed"} \X {"cancelled", "failed"})

\* C11: the status of a stored booking changes only along pending ->
\* confirmed -> completed or from pending/confirmed to cancelled/failed, and
\* a booking in a terminal status never changes status again.
C11_StatusTransitions ==
    [][\A r \in bookings, r2 \in bookings' :
          (r.id = r2.id /\ r.status # r2.status)
              => (/\ r.status \notin TerminalStatuses
                  /\ <<r.status, r2.status>> \in AllowedTransitions)]_vars

C11_Witness ==
    /\ bLast.op = "Update"
    /\ bLast.status = "pending"
    /\ bResult = "internal"
    /\ \E r \in bookings : r.id = bLast.id /\ r.status = "cancelled"


C27_CommittedImpliesDispatched ==
    /\ [](\A o \in cInFlight : cCommitted <= o)
    /\ [][(cCrashes' = cCrashes + 1 /\ cInFlight # {})
             => \A o \in cInFlight : cOffset' <= o]_vars

----------------------------------------------------------------------------
(* User service claims *)

C14_WitnessCreate ==
    \E c \in Callers :
        /\ uc[c].op = "CreateUser"
        /\ uc[c].pc = "returned"
        /\ uc[c].pub = "failed"
        /\ uc[c].result = "nil"
        /\ \E u \in users : u.id = uc[c].id /\ u.active
        /\ uEvents[<<"user.created", uc[c].id>>] = 0

C14_WitnessUpdate ==
    \E c \in Callers :
        /\ uc[c].op = "UpdateUser"
        /\ uc[c].pc = "returned"
        /\ uc[c].pub = "failed"
        /\ uc[c].result = "nil"
        /\ \E u \in users : u.id = uc[c].id /\ u.name = "n1"


\* C21: a message whose handler attempts all failed is not read again by the
\* running consumer: when processMessage returns retries-exhausted the read
\* position is after the message, the next message read is the following
\* one, and every read returns an offset after all offsets read before.
C21_PositionAdvancesOnFailure ==
    /\ []((DispatchEnded /\ cOutcome.kind = "exhausted")
             => cOffset = cMsg.offset + 1)
    /\ [][(DispatchEnded /\ cOutcome.kind = "exhausted" /\ cMsg' # cMsg)
             => (cMsg'.offset = cMsg.offset + 1 /\ cCalls' = 0)]_vars
    /\ [][(cMsg # NoMsg /\ cMsg' # cMsg) => cMsg'.offset > cMsg.offset]_vars

C21_Witness ==
    /\ cMsg.offset = 1
    /\ cpc = "dispatch"
    /\ cConsumed = 0
    /\ cErrors["process"] = 1
    /\ cOutcome.kind = "exhausted"
    /\ cReadErrs = 0


CErrTotal(e) ==
    e["read"] + e["process"]

\* C23: the consumed-count goes up by one exactly when processMessage returns
\* for a message whose handler invocation succeeded; a message that ends in
\* handler-not-found, retries exhausted or cancellation, and a read error,
\* leave it unchanged and add one to the error-count.
C23_ConsumedCount ==
    /\ [][(cpc # "idle" /\ cpc' = "idle")
             => IF cOutcome'.kind = "nil"
                THEN /\ cErr' = "nil"
                     /\ cCalls' >= 1
                     /\ cConsumed' = cConsumed + 1
                     /\ cErrors' = cErrors
                ELSE /\ cOutcome'.kind \in {"notfound", "exhausted", "canceled", "read"}
                     /\ cConsumed' = cConsumed
                     /\ CErrTotal(cErrors') = CErrTotal(cErrors) + 1
                     /\ cErrors'["read"] = cErrors["read"] + 1
                           <=> cOutcome'.kind = "read"]_vars
    /\ [][~(cpc # "idle" /\ cpc' = "idle")
             => (cConsumed' = cConsumed /\ cErrors' = cErrors)]_vars

C23_Witness ==
    /\ cConsumed = 1
    /\ cErrors["process"] = 1
    /\ cMsg.offset = 1
    /\ DispatchEnded
    /\ cOutcome.kind = "nil"

C23_WitnessErrors ==
    /\ cConsumed = 0
    /\ cErrors["process"] = 2
    /\ cErrors["read"] = 1


C24_WitnessWriteFails ==
    \E c \in Callers :
        /\ uc[c].op = "CreateUser"
        /\ uc[c].pc = "returned"
        /\ uc[c].result = "conflict"
        /\ ~uc[c].wrote
        /\ uc[c].pub = "none"
        /\ uc[c].id # -1


\* C28: of the DeleteUser calls on one user id, overlapping or repeated, at
\* most one returns success and at most one user.deleted event is published;
\* a call that returned anything else has published nothing.
C28_DeleteOnce ==
    \A id \in UserIds :
        /\ uEvents[<<"user.deleted", id>>] <= 1
        /\ Cardinality({c \in Callers : /\ uc[c].op = "DeleteUser"
                                         /\ uc[c].id = id
                                         /\ uc[c].pc = "returned"
                                         /\ uc[c].result = "nil"}) <= 1
        /\ \A c \in Callers :
              (uc[c].op = "DeleteUser" /\ uc[c].pc = "returned" /\ uc[c].result # "nil")
                  => uc[c].pub = "none"


----------------------------------------------------------------------------
(* Registry claims *)

\* C25: on an instance whose RegisterHandler calls all completed before its
\* Start began, no map write overlaps a dispatch lookup and the map does not
\* change once Start has begun; and a lookup that no write overlapped
\* returns the entry of the instance's own map, whatever the maps of other
\* instances hold.
C25_RegistryReadOnlyAfterStart ==
    /\ [](\A i \in Instances :
            ~rLate[i]
                => (/\ ~rRace[i]
                    /\ ~(rWriting[i].t # NoAccess /\ rReading[i].t # NoAccess)))
    /\ [][\A i \in Instances :
            (rStarted[i] /\ ~rLate'[i]) => reg'[i] = reg[i]]_vars
    /\ [][\A i \in Instances :
            (rReading[i].t # NoAccess /\ rReading'[i].t = NoAccess /\ ~rRace[i])
                => rFound'[i] = IF rReading[i].t \in DOMAIN reg[i]
                                THEN reg[i][rReading[i].t]
                                ELSE "notfound"]_vars

C25_Witness ==
    /\ rStarted["k1"]
    /\ ~rLate["k1"]
    /\ "A" \in DOMAIN reg["k1"]
    /\ reg["k1"]["A"] = "h1"
    /\ "A" \in DOMAIN reg["k2"]
    /\ reg["k2"]["A"] = "h2"
    /\ rFound["k1"] = "h1"
    /\ rStarted["k2"]
    /\ rFound["k2"] = "h2"

C25_WitnessOther ==
    /\ rStarted["k1"]
    /\ ~rLate["k1"]
    /\ reg["k1"] = << >>
    /\ "A" \in DOMAIN reg["k2"]
    /\ rFound["k1"] = "notfound"


----------------------------------------------------------------------------
(* Timeout middleware claims *)

\* C30: the goroutine that runs the downstream handlers is never left
\* blocked at its send on finished after the middleware has returned, and
\* the timeout response and the handlers' response are never both written
\* for one request.
C30_TimeoutGoroutineEnds ==
    /\ ~(tMain = "returned" /\ tGo = "send")
    /\ ~({"timeout", "handler"} \subseteq tWrites)

====
